---------------------------- MODULE Spec2Model ----------------------------
(***************************************************************************)
(* Blackjack.py: the round state machine of BlackjackGame (deck, hands,    *)
(* bet, chips, game_state, message) driven by the events of handle_events  *)
(* and by the per-frame update.  Rendering (draw, Card.update, button      *)
(* hover) changes none of the modelled fields; of draw, only the flag that *)
(* hides the dealer's first card is modelled.  The QUIT event ends the     *)
(* process: the behaviour stutters from there on.                          *)
(***************************************************************************)
EXTENDS Integers, Sequences, FiniteSets, TLC

(***************************************************************************)
(* Bounds of the model.                                                    *)
(***************************************************************************)
\* start_new_round is called at most MaxRounds times in a behaviour.
MaxRounds == 1
\* random.shuffle is explored over the permutations that pop the cards of the
\* built deck in the order 0, a, 2a, ... (mod 52), a <= MaxStride coprime to
\* the deck size.
MaxStride == 17
\* At most MaxDigits digits are typed behind a prompt.
MaxDigits == 4
\* BACKSPACE erases at most MaxErase characters of the prompt itself.
MaxErase == 1
\* HandSpec scores the hands of at most MaxHand cards drawn from the first
\* HandSuits suits.
MaxHand == 3
HandSuits == 2

(***************************************************************************)
(* Program constants.                                                      *)
(***************************************************************************)
SCREEN_HEIGHT == 580
BUTTON_WIDTH == 200
BUTTON_HEIGHT == 50
InitialChips == 1000

\* class Suit / class Rank, in definition (iteration) order.
Suit == <<"H", "D", "C", "S">>
Rank == <<2, 3, 4, 5, 6, 7, 8, 9, 10, 11, 12, 13, 14>>
ACE == 14

VARIABLES
  deck,         \* self.deck.cards, a list; deal() pops its last element
  player_hand,  \* self.player.hand
  dealer_hand,  \* self.dealer.hand
  chips,        \* self.player.chips
  bet,          \* self.bet
  game_state,   \* self.game_state
  message,      \* self.message
  shuffled,     \* history: Deck.shuffle was called on the current deck
  settled,      \* history: chip settlements run since the last bet was accepted
  rounds,       \* history: number of start_new_round calls
  refused       \* history: the last step was a command that its phase refuses

vars == <<deck, player_hand, dealer_hand, chips, bet, game_state, message,
          shuffled, settled, rounds, refused>>

game == <<deck, player_hand, dealer_hand, chips, bet, game_state, message>>

(***************************************************************************)
(* Card, Deck, Player.                                                     *)
(***************************************************************************)
\* Card.get_value
get_value(card) == IF card.rank < 10 THEN card.rank ELSE 10

\* Deck.build: [Card(suit, rank) for suit in Suit for rank in Rank]
build ==
  [i \in 1..(Len(Suit) * Len(Rank)) |->
     [suit |-> Suit[((i - 1) \div Len(Rank)) + 1],
      rank |-> Rank[((i - 1) % Len(Rank)) + 1]]]

RECURSIVE GCD(_, _)
GCD(a, b) == IF b = 0 THEN a ELSE GCD(b, a % b)

\* Deck.shuffle: the permutations of cards that random.shuffle is explored over.
\* The k-th card popped (k = 0 for the last element) is cards[(a*k) mod n].
shuffle(cards) ==
  LET n == Len(cards)
  IN  { [i \in 1..n |-> cards[((a * (n - i)) % n) + 1]] :
          a \in {s \in 1..MaxStride : GCD(s, n) = 1} }

\* deal_card with the card read and left in the deck (cards[-1] for cards.pop())
deal_card_peek(cards, hand) ==
  IF Len(cards) > 0
  THEN [cards |-> cards, hand |-> Append(hand, cards[Len(cards)])]
  ELSE [cards |-> cards, hand |-> hand]

\* Deck.deal followed by the "if card:" of deal_card and Player.add_card:
\* the deck and the hand after dealing one card from cards to hand.
deal_card(cards, hand) ==
  IF Len(cards) > 0
  THEN [cards |-> SubSeq(cards, 1, Len(cards) - 1),
        hand  |-> Append(hand, cards[Len(cards)])]
  ELSE [cards |-> cards, hand |-> hand]

RECURSIVE SumValues(_)
SumValues(hand) ==
  IF hand = <<>> THEN 0 ELSE get_value(Head(hand)) + SumValues(Tail(hand))

RECURSIVE CountAces(_)
CountAces(hand) ==
  IF hand = <<>> THEN 0
  ELSE (IF Head(hand).rank = ACE THEN 1 ELSE 0) + CountAces(Tail(hand))

\* the while loop of get_hand_value
RECURSIVE ReduceAces(_, _)
ReduceAces(value, num_aces) ==
  IF value > 21 /\ num_aces # 0
  THEN ReduceAces(value - 10, num_aces - 1)
  ELSE value

\* Player.get_hand_value
get_hand_value(hand) == ReduceAces(SumValues(hand), CountAces(hand))


\* Player.add_card
add_card(hand, card) == Append(hand, card)

\* Player.clear_hand
clear_hand(hand) == <<>>

(***************************************************************************)
(* Button.                                                                 *)
(***************************************************************************)
\* Button.__init__: pygame.Rect(x, y, width, height)
Button(x, y, width, height) == [x |-> x, y |-> y, w |-> width, h |-> height]

hit_button == Button(50, SCREEN_HEIGHT - 70, BUTTON_WIDTH, BUTTON_HEIGHT)
stand_button == Button(300, SCREEN_HEIGHT - 70, BUTTON_WIDTH, BUTTON_HEIGHT)
deal_button == Button(550, SCREEN_HEIGHT - 70, BUTTON_WIDTH, BUTTON_HEIGHT)

\* Button.is_clicked: self.rect.collidepoint(pos)
is_clicked(button, pos) ==
  /\ button.x <= pos[1] /\ pos[1] < button.x + button.w
  /\ button.y <= pos[2] /\ pos[2] < button.y + button.h

(***************************************************************************)
(* The message as text.                                                    *)
(***************************************************************************)
Digits == {"0", "1", "2", "3", "4", "5", "6", "7", "8", "9"}

\* s[i], as a one-character string
Char(s, i) == SubSeq(s, i, i)

\* s[:-1]
DropLast(s) == IF Len(s) = 0 THEN s ELSE SubSeq(s, 1, Len(s) - 1)

\* s.split(":")[-1]: what follows the last colon, or all of s without one
RECURSIVE LastField(_)
LastField(s) ==
  IF Len(s) = 0 \/ Char(s, Len(s)) = ":" THEN ""
  ELSE LastField(DropLast(s)) \o Char(s, Len(s))

\* int(s) raises ValueError.  The text behind the last colon is made of prompt
\* characters and typed decimal digits only: it parses iff it is a non-empty
\* string of digits.
ValueError(s) == Len(s) = 0 \/ \E i \in 1..Len(s) : Char(s, i) \notin Digits

DigitValue(c) ==
  CASE c = "0" -> 0 [] c = "1" -> 1 [] c = "2" -> 2 [] c = "3" -> 3
    [] c = "4" -> 4 [] c = "5" -> 5 [] c = "6" -> 6 [] c = "7" -> 7
    [] c = "8" -> 8 [] c = "9" -> 9

\* int(s), for a string of decimal digits
RECURSIVE int(_)
int(s) ==
  IF Len(s) = 0 THEN 0
  ELSE 10 * int(DropLast(s)) + DigitValue(Char(s, Len(s)))

\* the number of digits s ends with
RECURSIVE TrailingDigits(_)
TrailingDigits(s) ==
  IF Len(s) = 0 \/ Char(s, Len(s)) \notin Digits THEN 0
  ELSE 1 + TrailingDigits(DropLast(s))

\* the prompts shown while betting
BetPrompts ==
  {"Enter bet amount:", "Invalid bet. Enter bet amount:",
   "Invalid input. Enter bet amount:"}

\* s is a bet prompt with at most e of its last characters erased, followed by
\* typed digits
ErasedAtMost(s, e) ==
  LET head == SubSeq(s, 1, Len(s) - TrailingDigits(s))
  IN  \E p \in BetPrompts : \E k \in 0..e :
        k <= Len(p) /\ head = SubSeq(p, 1, Len(p) - k)

(***************************************************************************)
(* BlackjackGame.                                                          *)
(***************************************************************************)
\* BlackjackGame.__init__: Deck() builds the deck and does not shuffle it.
Init ==
  /\ deck = build
  /\ player_hand = <<>>
  /\ dealer_hand = <<>>
  /\ chips = InitialChips
  /\ bet = 0
  /\ game_state = "betting"
  /\ message = "Enter bet amount:"
  /\ shuffled = FALSE
  /\ settled = 0
  /\ rounds = 0
  /\ refused = FALSE

\* start_new_round without its last line, self.bet = 0
start_new_round_keeps_bet ==
  /\ rounds < MaxRounds
  /\ deck' \in shuffle(build)
  /\ player_hand' = clear_hand(player_hand)
  /\ dealer_hand' = clear_hand(dealer_hand)
  /\ message' = "Enter bet amount:"
  /\ game_state' = "betting"
  /\ shuffled' = TRUE
  /\ settled' = 0
  /\ rounds' = rounds + 1
  /\ UNCHANGED <<chips, bet>>

\* BlackjackGame.start_new_round
start_new_round ==
  /\ rounds < MaxRounds
  /\ deck' \in shuffle(build)
  /\ player_hand' = clear_hand(player_hand)
  /\ dealer_hand' = clear_hand(dealer_hand)
  /\ message' = "Enter bet amount:"
  /\ game_state' = "betting"
  /\ bet' = 0
  /\ shuffled' = TRUE
  /\ settled' = 0
  /\ rounds' = rounds + 1
  /\ UNCHANGED chips

\* place_bet with 0 <= bet for 0 < bet
place_bet_accepts_zero ==
  /\ IF ValueError(LastField(message))
     THEN /\ message' = "Invalid input. Enter bet amount:"
          /\ UNCHANGED <<bet, game_state>>
     ELSE IF 0 <= int(LastField(message)) /\ int(LastField(message)) <= chips
     THEN /\ bet' = int(LastField(message))
          /\ game_state' = "dealing"
          /\ message' = "Dealing cards..."
     ELSE /\ message' = "Invalid bet. Enter bet amount:"
          /\ UNCHANGED <<bet, game_state>>
  /\ UNCHANGED <<deck, player_hand, dealer_hand, chips, shuffled, settled, rounds>>

\* place_bet with 0 < bet for 0 < bet <= self.player.chips
place_bet_no_limit ==
  /\ IF ValueError(LastField(message))
     THEN /\ message' = "Invalid input. Enter bet amount:"
          /\ UNCHANGED <<bet, game_state>>
     ELSE IF 0 < int(LastField(message))
     THEN /\ bet' = int(LastField(message))
          /\ game_state' = "dealing"
          /\ message' = "Dealing cards..."
     ELSE /\ message' = "Invalid bet. Enter bet amount:"
          /\ UNCHANGED <<bet, game_state>>
  /\ UNCHANGED <<deck, player_hand, dealer_hand, chips, shuffled, settled, rounds>>

\* place_bet with the message of a bet out of range for both rejections
place_bet_one_message ==
  /\ IF ValueError(LastField(message))
     THEN /\ message' = "Invalid bet. Enter bet amount:"
          /\ UNCHANGED <<bet, game_state>>
     ELSE IF 0 < int(LastField(message)) /\ int(LastField(message)) <= chips
     THEN /\ bet' = int(LastField(message))
          /\ game_state' = "dealing"
          /\ message' = "Dealing cards..."
     ELSE /\ message' = "Invalid bet. Enter bet amount:"
          /\ UNCHANGED <<bet, game_state>>
  /\ UNCHANGED <<deck, player_hand, dealer_hand, chips, shuffled, settled, rounds>>

\* BlackjackGame.place_bet
place_bet ==
  /\ IF ValueError(LastField(message))
     THEN /\ message' = "Invalid input. Enter bet amount:"
          /\ UNCHANGED <<bet, game_state>>
     ELSE IF 0 < int(LastField(message)) /\ int(LastField(message)) <= chips
     THEN /\ bet' = int(LastField(message))
          /\ game_state' = "dealing"
          /\ message' = "Dealing cards..."
     ELSE /\ message' = "Invalid bet. Enter bet amount:"
          /\ UNCHANGED <<bet, game_state>>
  /\ UNCHANGED <<deck, player_hand, dealer_hand, chips, shuffled, settled, rounds>>

\* BlackjackGame.deal_initial_cards: player, dealer, player, dealer
deal_initial_cards ==
  LET p1 == deal_card(deck, player_hand)
      d1 == deal_card(p1.cards, dealer_hand)
      p2 == deal_card(d1.cards, p1.hand)
      d2 == deal_card(p2.cards, d1.hand)
  IN  /\ deck' = d2.cards
      /\ player_hand' = p2.hand
      /\ dealer_hand' = d2.hand
      /\ game_state' = "player_turn"
      /\ message' = "Your turn: Hit or Stand?"
      /\ UNCHANGED <<chips, bet, shuffled, settled, rounds>>

\* player_hit with >= 21 for > 21
player_hit_busts_at_21 ==
  LET d == deal_card(deck, player_hand)
  IN  /\ deck' = d.cards
      /\ player_hand' = d.hand
      /\ IF get_hand_value(d.hand) >= 21
         THEN /\ message' = "You busted! Dealer wins."
              /\ chips' = chips - bet
              /\ game_state' = "game_over"
              /\ settled' = settled + 1
         ELSE /\ message' = "Your turn: Hit or Stand?"
              /\ UNCHANGED <<chips, game_state, settled>>
      /\ UNCHANGED <<dealer_hand, bet, shuffled, rounds>>

\* player_hit with the bust handing the round to the dealer, whose turn then
\* settles it again
player_hit_bust_to_dealer ==
  LET d == deal_card(deck, player_hand)
  IN  /\ deck' = d.cards
      /\ player_hand' = d.hand
      /\ IF get_hand_value(d.hand) > 21
         THEN /\ message' = "You busted! Dealer wins."
              /\ chips' = chips - bet
              /\ game_state' = "dealer_turn"
              /\ settled' = settled + 1
         ELSE /\ message' = "Your turn: Hit or Stand?"
              /\ UNCHANGED <<chips, game_state, settled>>
      /\ UNCHANGED <<dealer_hand, bet, shuffled, rounds>>

\* player_hit without the bust test
player_hit_no_bust ==
  LET d == deal_card(deck, player_hand)
  IN  /\ deck' = d.cards
      /\ player_hand' = d.hand
      /\ message' = "Your turn: Hit or Stand?"
      /\ UNCHANGED <<chips, game_state, settled>>
      /\ UNCHANGED <<dealer_hand, bet, shuffled, rounds>>

\* player_hit with > 24 for > 21: 24 is the smallest value a bust takes
\* under the shuffles explored
player_hit_busts_above_24 ==
  LET d == deal_card(deck, player_hand)
  IN  /\ deck' = d.cards
      /\ player_hand' = d.hand
      /\ IF get_hand_value(d.hand) > 24
         THEN /\ message' = "You busted! Dealer wins."
              /\ chips' = chips - bet
              /\ game_state' = "game_over"
              /\ settled' = settled + 1
         ELSE /\ message' = "Your turn: Hit or Stand?"
              /\ UNCHANGED <<chips, game_state, settled>>
      /\ UNCHANGED <<dealer_hand, bet, shuffled, rounds>>

\* BlackjackGame.player_hit
player_hit ==
  LET d == deal_card(deck, player_hand)
  IN  /\ deck' = d.cards
      /\ player_hand' = d.hand
      /\ IF get_hand_value(d.hand) > 21
         THEN /\ message' = "You busted! Dealer wins."
              /\ chips' = chips - bet
              /\ game_state' = "game_over"
              /\ settled' = settled + 1
         ELSE /\ message' = "Your turn: Hit or Stand?"
              /\ UNCHANGED <<chips, game_state, settled>>
      /\ UNCHANGED <<dealer_hand, bet, shuffled, rounds>>

\* player_stand ending the round without the dealer's turn
player_stand_ends_round ==
  /\ game_state' = "game_over"
  /\ message' = "Dealer's turn..."
  /\ UNCHANGED <<deck, player_hand, dealer_hand, chips, bet, shuffled, settled, rounds>>

\* BlackjackGame.player_stand
player_stand ==
  /\ game_state' = "dealer_turn"
  /\ message' = "Dealer's turn..."
  /\ UNCHANGED <<deck, player_hand, dealer_hand, chips, bet, shuffled, settled, rounds>>

\* determine_winner without the dealer-bust branch
determine_winner_no_dealer_bust ==
  LET player_value == get_hand_value(player_hand)
      dealer_value == get_hand_value(dealer_hand)
  IN  /\ IF player_value > dealer_value
         THEN message' = "You win!" /\ chips' = chips + bet
         ELSE IF dealer_value > player_value
         THEN message' = "Dealer wins." /\ chips' = chips - bet
         ELSE message' = "It's a tie!" /\ chips' = chips
      /\ game_state' = "game_over"
      /\ settled' = settled + 1
      /\ UNCHANGED <<deck, player_hand, dealer_hand, bet, shuffled, rounds>>

\* BlackjackGame.determine_winner
determine_winner ==
  LET player_value == get_hand_value(player_hand)
      dealer_value == get_hand_value(dealer_hand)
  IN  /\ IF dealer_value > 21
         THEN message' = "Dealer busted! You win!" /\ chips' = chips + bet
         ELSE IF player_value > dealer_value
         THEN message' = "You win!" /\ chips' = chips + bet
         ELSE IF dealer_value > player_value
         THEN message' = "Dealer wins." /\ chips' = chips - bet
         ELSE message' = "It's a tie!" /\ chips' = chips
      /\ game_state' = "game_over"
      /\ settled' = settled + 1
      /\ UNCHANGED <<deck, player_hand, dealer_hand, bet, shuffled, rounds>>

\* what no handler touches
Untouched ==
  UNCHANGED <<deck, player_hand, dealer_hand, chips, bet, game_state, message,
              shuffled, settled, rounds>>

\* dealer_turn with <= 17 for < 17
dealer_turn_hits_17 ==
  IF get_hand_value(dealer_hand) <= 17
  THEN LET d == deal_card(deck, dealer_hand)
       IN  /\ deck' = d.cards
           /\ dealer_hand' = d.hand
           /\ UNCHANGED <<player_hand, chips, bet, game_state, message,
                          shuffled, settled, rounds>>
  ELSE determine_winner

\* BlackjackGame.dealer_turn
dealer_turn ==
  IF get_hand_value(dealer_hand) < 17
  THEN LET d == deal_card(deck, dealer_hand)
       IN  /\ deck' = d.cards
           /\ dealer_hand' = d.hand
           /\ UNCHANGED <<player_hand, chips, bet, game_state, message,
                          shuffled, settled, rounds>>
  ELSE determine_winner


\* handle_click without the test of game_state
handle_click_any_phase(pos) ==
  IF is_clicked(hit_button, pos) THEN player_hit
  ELSE IF is_clicked(stand_button, pos) THEN player_stand
  ELSE IF is_clicked(deal_button, pos) THEN start_new_round
  ELSE Untouched

\* BlackjackGame.handle_click
handle_click(pos) ==
  IF game_state = "player_turn"
  THEN IF is_clicked(hit_button, pos) THEN player_hit
       ELSE IF is_clicked(stand_button, pos) THEN player_stand
       ELSE Untouched
  ELSE IF game_state = "game_over"
  THEN IF is_clicked(deal_button, pos) THEN start_new_round
       ELSE Untouched
  ELSE Untouched

\* str.isdigit of event.unicode, for the keys of KeyEvents
isdigit(c) == c \in Digits

\* BlackjackGame.handle_bet_input
handle_bet_input(event) ==
  IF event.key = "K_RETURN" THEN place_bet
  ELSE IF event.key = "K_BACKSPACE"
  THEN /\ message' = DropLast(message)
       /\ UNCHANGED <<deck, player_hand, dealer_hand, chips, bet, game_state,
                      shuffled, settled, rounds>>
  ELSE IF isdigit(event.unicode)
  THEN /\ message' = message \o event.unicode
       /\ UNCHANGED <<deck, player_hand, dealer_hand, chips, bet, game_state,
                      shuffled, settled, rounds>>
  ELSE Untouched

\* BlackjackGame.draw: the hide_first that draw passes to draw_hand for the
\* dealer's hand, self.game_state != "dealer_turn"
hide_first == game_state # "dealer_turn"

(***************************************************************************)
(* The events of handle_events and the frame update.                       *)
(***************************************************************************)
\* event.pos: a point outside the buttons and a point inside each of them
Positions == {<<10, 10>>, <<60, 520>>, <<310, 520>>, <<560, 520>>}

\* event.button: left, right
MouseButtons == {1, 3}

\* the KEYDOWN events: event.key with its event.unicode (the control character
\* of RETURN and BACKSPACE, which is no digit, is written "")
KeyEvents ==
  { [key |-> "K_RETURN", unicode |-> ""],
    [key |-> "K_BACKSPACE", unicode |-> ""],
    [key |-> "K_0", unicode |-> "0"],
    [key |-> "K_1", unicode |-> "1"],
    [key |-> "K_a", unicode |-> "a"] }

\* the command a left click at pos asks for
ClickCommand(pos) ==
  IF is_clicked(hit_button, pos) THEN "hit"
  ELSE IF is_clicked(stand_button, pos) THEN "stand"
  ELSE IF is_clicked(deal_button, pos) THEN "deal"
  ELSE "none"

\* the phase in which handle_click and handle_events dispatch a command
CommandPhase(command) ==
  CASE command = "hit" -> "player_turn"
    [] command = "stand" -> "player_turn"
    [] command = "deal" -> "game_over"
    [] command = "bet" -> "betting"

\* handle_events, MOUSEBUTTONDOWN
MouseButtonDown(button, pos) ==
  /\ IF button = 1 THEN handle_click(pos) ELSE Untouched
  /\ refused' = (/\ button = 1
                 /\ ClickCommand(pos) # "none"
                 /\ game_state # CommandPhase(ClickCommand(pos)))

\* the typing the model explores: up to MaxDigits digits behind a whole
\* prompt, BACKSPACE up to MaxErase characters into the prompt
Typed(event) ==
  /\ isdigit(event.unicode) =>
       /\ TrailingDigits(message) < MaxDigits
       /\ ErasedAtMost(message, 0)
  /\ event.key = "K_BACKSPACE" => ErasedAtMost(DropLast(message), MaxErase)

\* handle_events, KEYDOWN
KeyDown(event) ==
  /\ IF game_state = "betting"
     THEN Typed(event) /\ handle_bet_input(event)
     ELSE Untouched
  /\ refused' = (game_state # CommandPhase("bet"))

\* update without its elif branch for "dealer_turn"
update_without_dealer ==
  /\ IF game_state = "dealing" THEN deal_initial_cards
     ELSE Untouched
  /\ refused' = FALSE

\* BlackjackGame.update
update ==
  /\ IF game_state = "dealing" THEN deal_initial_cards
     ELSE IF game_state = "dealer_turn" THEN dealer_turn
     ELSE Untouched
  /\ refused' = FALSE

Next ==
  \/ \E button \in MouseButtons, pos \in Positions : MouseButtonDown(button, pos)
  \/ \E event \in KeyEvents : KeyDown(event)
  \/ update

Spec == Init /\ [][Next]_vars

\* run calls update once per frame, for ever: update is taken whenever it
\* would change the state
LiveSpec == Spec /\ WF_vars(update)

TypeOK ==
  /\ chips \in Int /\ bet \in Nat
  /\ game_state \in {"betting", "dealing", "player_turn", "dealer_turn", "game_over"}
  /\ shuffled \in BOOLEAN /\ settled \in Nat /\ rounds \in 0..MaxRounds
  /\ refused \in BOOLEAN

(***************************************************************************)
(* HandSpec: get_hand_value on arbitrary hands.  The player is handed any  *)
(* card of the first HandSuits suits that the hand does not hold yet, and  *)
(* the hand is scored as player_hit scores it.                             *)
(***************************************************************************)
HandCards == {build[i] : i \in 1..(HandSuits * Len(Rank))}

HandInit ==
  /\ deck = build
  /\ player_hand = <<>>
  /\ dealer_hand = <<>>
  /\ chips = InitialChips
  /\ bet = 0
  /\ game_state = "player_turn"
  /\ message = "Your turn: Hit or Stand?"
  /\ shuffled = FALSE
  /\ settled = 0
  /\ rounds = 0
  /\ refused = FALSE

\* Player.add_card of any card, then the bust test of player_hit
HandAdd(card) ==
  /\ Len(player_hand) < MaxHand
  /\ \A i \in 1..Len(player_hand) : player_hand[i] # card
  /\ player_hand' = add_card(player_hand, card)
  /\ IF get_hand_value(add_card(player_hand, card)) > 21
     THEN message' = "You busted! Dealer wins." /\ game_state' = "game_over"
     ELSE message' = "Your turn: Hit or Stand?" /\ game_state' = "player_turn"
  /\ UNCHANGED <<deck, dealer_hand, chips, bet, shuffled, settled, rounds, refused>>

\* Player.clear_hand
HandClear ==
  /\ player_hand # <<>>
  /\ player_hand' = clear_hand(player_hand)
  /\ game_state' = "player_turn"
  /\ message' = "Your turn: Hit or Stand?"
  /\ UNCHANGED <<deck, dealer_hand, chips, bet, shuffled, settled, rounds, refused>>

HandNext ==
  \/ \E card \in HandCards : HandAdd(card)
  \/ HandClear

HandSpec == HandInit /\ [][HandNext]_vars

(***************************************************************************)
(* SettleSpec: the game, with determine_winner also called directly on a   *)
(* round that is already settled.  run never makes that call: update calls *)
(* dealer_turn in the phase dealer_turn only.                              *)
(***************************************************************************)
\* a second call of BlackjackGame.determine_winner for a round that its first
\* call completed (a round lost by a bust holds a player hand above 21)
determine_winner_again ==
  /\ game_state = "game_over"
  /\ settled = 1
  /\ get_hand_value(player_hand) <= 21
  /\ determine_winner
  /\ refused' = FALSE

SettleNext ==
  \/ Next
  \/ determine_winner_again

SettleSpec == Init /\ [][SettleNext]_vars

(***************************************************************************)
(* Definitions used by the properties.                                     *)
(***************************************************************************)
\* the cards of a list
Cards(seq) == {seq[i] : i \in 1..Len(seq)}

\* the 52 (suit, rank) pairs
AllCards ==
  {[suit |-> Suit[s], rank |-> Rank[r]] : s \in 1..Len(Suit), r \in 1..Len(Rank)}

\* the reference scoring: Ace 11, Ten/Jack/Queen/King 10, the others their number
SoftCardValue(card) ==
  IF card.rank = ACE THEN 11 ELSE IF card.rank >= 10 THEN 10 ELSE card.rank

RECURSIVE SoftSum(_)
SoftSum(hand) ==
  IF hand = <<>> THEN 0 ELSE SoftCardValue(Head(hand)) + SoftSum(Tail(hand))

\* while the total exceeds 21 and an unreduced Ace remains, subtract 10
RECURSIVE SoftReduce(_, _)
SoftReduce(total, unreduced) ==
  IF total > 21 /\ unreduced > 0 THEN SoftReduce(total - 10, unreduced - 1)
  ELSE total

SoftAceValue(hand) == SoftReduce(SoftSum(hand), CountAces(hand))

\* a left click on a button
ClickOn(button) ==
  \E pos \in Positions : is_clicked(button, pos) /\ MouseButtonDown(1, pos)

\* the RETURN key
PressReturn == KeyDown([key |-> "K_RETURN", unicode |-> ""])

(***************************************************************************)
(* Properties.                                                             *)
(***************************************************************************)
\* C1: every hand scores its reference soft-ace value (Ace 11, reduced by 10
\* once per Ace while the total exceeds 21; Ten..King 10; others their number).
C1_HandValue == get_hand_value(player_hand) = SoftAceValue(player_hand)

\* C2: a round that ends by dealer-turn completion pays chips + bet if the
\* dealer busts or P > D, chips - bet if D <= 21 and D > P, and nothing if D = P.
C2_Settlement ==
  [][(game_state = "dealer_turn" /\ game_state' = "game_over") =>
       LET P == get_hand_value(player_hand')
           D == get_hand_value(dealer_hand')
       IN  /\ (D > 21 \/ P > D) => chips' = chips + bet
           /\ (D <= 21 /\ D > P) => chips' = chips - bet
           /\ D = P => chips' = chips]_vars

\* a round won at dealer-turn completion
C2_Witness ==
  /\ game_state = "game_over"
  /\ get_hand_value(player_hand) <= 21
  /\ bet > 0
  /\ chips = InitialChips + bet

\* C3: one settlement per round: the round is over iff exactly one settlement
\* has run in it, chips change only in a settlement, and a settlement is the
\* step that ends PlayerTurn or DealerTurn.
C3_SettledOnce ==
  /\ [](settled = IF game_state = "game_over" THEN 1 ELSE 0)
  /\ [][/\ chips' # chips => settled' = settled + 1
        /\ settled' = settled + 1 =>
             /\ game_state \in {"player_turn", "dealer_turn"}
             /\ game_state' = "game_over"]_vars

\* a second round settled once, after the first was
C3_Witness ==
  /\ rounds = 1
  /\ game_state = "game_over"
  /\ settled = 1
  /\ chips # InitialChips

\* C4: in DealerTurn the dealer draws one card only while below 17, the round
\* is settled only at 17 or more, and at 17 or more the dealer draws no card.
C4_DealerPolicy ==
  [][game_state = "dealer_turn" =>
       /\ dealer_hand' # dealer_hand =>
            /\ get_hand_value(dealer_hand) < 17
            /\ Len(dealer_hand') = Len(dealer_hand) + 1
            /\ game_state' = "dealer_turn"
       /\ game_state' = "game_over" =>
            /\ get_hand_value(dealer_hand) >= 17
            /\ dealer_hand' = dealer_hand
       /\ game_state' \in {"dealer_turn", "game_over"}]_vars

\* the dealer drew from below 17 and the round was settled at 17 or more
C4_Witness ==
  /\ game_state = "game_over"
  /\ Len(dealer_hand) > 2
  /\ get_hand_value(SubSeq(dealer_hand, 1, Len(dealer_hand) - 1)) < 17
  /\ get_hand_value(dealer_hand) >= 17
  /\ get_hand_value(player_hand) <= 21

\* C5: in Betting a submitted bet k is accepted iff 0 < k <= chips; accepted,
\* bet = k and the phase is Dealing; rejected, the phase stays Betting.
C5_BetAccepted ==
  [][(game_state = "betting" /\ PressReturn) =>
       LET field == LastField(message)
       IN  IF ~ValueError(field) /\ 0 < int(field) /\ int(field) <= chips
           THEN bet' = int(field) /\ game_state' = "dealing"
           ELSE bet' = bet /\ game_state' = "betting"]_vars

\* all the chips are bet (k = chips) and the bet is accepted
C5_Witness ==
  /\ game_state = "dealing"
  /\ bet = chips
  /\ bet > 0

\* C6: a hit in PlayerTurn deals exactly one card to the player; above 21 the
\* bet is subtracted and the round is over, the dealer drawing no more card;
\* otherwise phase and chips stay.
C6_PlayerHit ==
  [][/\ (game_state = "player_turn" /\ ClickOn(hit_button)) =>
          /\ Len(deck) > 0
          /\ player_hand' = Append(player_hand, deck[Len(deck)])
          /\ deck' = SubSeq(deck, 1, Len(deck) - 1)
          /\ dealer_hand' = dealer_hand
          /\ bet' = bet
          /\ IF get_hand_value(player_hand') > 21
             THEN chips' = chips - bet /\ game_state' = "game_over"
             ELSE chips' = chips /\ game_state' = "player_turn"
     /\ (game_state = "game_over" /\ get_hand_value(player_hand) > 21) =>
          dealer_hand' \in {dealer_hand, <<>>}]_vars

\* scenario A: 1000 chips, bet 100, the player hits to a bust
C6_Witness ==
  /\ game_state = "game_over"
  /\ get_hand_value(player_hand) > 21
  /\ bet = 100
  /\ chips = 900

\* C7: after a new-round command in RoundOver both hands are empty, bet = 0,
\* the shoe holds the 52 distinct cards, the phase is Betting and the chips are
\* those the settlement left.
C7_NewRound ==
  [][(game_state = "game_over" /\ ClickOn(deal_button)) =>
       /\ player_hand' = <<>>
       /\ dealer_hand' = <<>>
       /\ bet' = 0
       /\ Len(deck') = 52
       /\ Cards(deck') = AllCards
       /\ Cardinality(AllCards) = 52
       /\ game_state' = "betting"
       /\ chips' = chips]_vars

\* the round after a lost one
C7_Witness ==
  /\ rounds = 1
  /\ game_state = "betting"
  /\ player_hand = <<>> /\ dealer_hand = <<>>
  /\ bet = 0
  /\ Len(deck) = 52
  /\ chips = 900

\* C8: no card is dealt from a deck that was built and not shuffled.
C8_ShuffledBeforeDeal == Len(deck) < Len(build) => shuffled

\* C9: shoe and hands are pairwise disjoint and hold the 52 cards once each.
C9_Partition ==
  /\ Len(deck) + Len(player_hand) + Len(dealer_hand) = 52
  /\ Cards(deck) \cup Cards(player_hand) \cup Cards(dealer_hand) = AllCards
  /\ Cardinality(AllCards) = 52

\* cards dealt from a shuffled shoe to both hands, by hits and dealer draws
C9_Witness ==
  /\ shuffled
  /\ Len(player_hand) > 2
  /\ Len(dealer_hand) > 2

\* C10: a hit or stand outside PlayerTurn, a new-round command outside
\* RoundOver and bet input outside Betting change nothing.
C10_WrongPhase == [][refused' => UNCHANGED game]_vars

\* a command refused while betting
C10_Witness == refused /\ game_state = "betting"

\* C11: determine_winner called a second time for a completed round leaves the
\* chips as the first call left them.
C11_Idempotent ==
  [][(game_state = "game_over" /\ settled' = settled + 1) => chips' = chips]_vars

\* C12: the chip balance is never negative.
C12_ChipsNonNegative == chips >= 0

\* all the chips were bet and lost
C12_Witness ==
  /\ chips = 0
  /\ bet = InitialChips
  /\ game_state = "game_over"

\* C13: no deal finds the shoe empty: the initial deal finds four cards, a
\* hit and a dealer draw find one.
C13_ShoeNeverEmpty ==
  /\ game_state = "dealing" => Len(deck) >= 4
  /\ game_state = "player_turn" => Len(deck) >= 1
  /\ (game_state = "dealer_turn" /\ get_hand_value(dealer_hand) < 17) =>
       Len(deck) >= 1

\* the dealer is about to draw after the player hit twice
C13_Witness ==
  /\ game_state = "dealer_turn"
  /\ get_hand_value(dealer_hand) < 17
  /\ Len(player_hand) >= 4
  /\ Len(deck) >= 1

\* C14: a rejected bet changes the message only, to one text for input that
\* is no number and to another for a number out of range.
C14_RejectedBet ==
  [][(game_state = "betting" /\ PressReturn /\ game_state' = "betting") =>
       /\ UNCHANGED <<deck, player_hand, dealer_hand, chips, bet>>
       /\ bet = 0
       /\ message' = IF ValueError(LastField(message))
                     THEN "Invalid input. Enter bet amount:"
                     ELSE "Invalid bet. Enter bet amount:"
       /\ "Invalid input. Enter bet amount:" # "Invalid bet. Enter bet amount:"]_vars

\* a number above the chips was rejected after a lost round
C14_Witness ==
  /\ game_state = "betting"
  /\ message = "Invalid bet. Enter bet amount:"
  /\ bet = 0
  /\ chips > 0 /\ chips < InitialChips

\* C15: the dealer's first card is hidden exactly when the phase is neither
\* DealerTurn nor RoundOver.
C15_HiddenCard == hide_first <=> game_state \notin {"dealer_turn", "game_over"}

\* C16: a dealer entering DealerTurn with an Ace and a Six stands: no card is
\* drawn and the round is settled on the two cards, valued 17.
C16_SoftSeventeen ==
  [][(/\ game_state = "dealer_turn"
      /\ Len(dealer_hand) = 2
      /\ {dealer_hand[1].rank, dealer_hand[2].rank} = {ACE, 6}) =>
       /\ dealer_hand' = dealer_hand
       /\ game_state' = "game_over" => get_hand_value(dealer_hand') = 17]_vars

\* C17: the phase starts as Betting and changes only by an accepted bet
\* (Betting -> Dealing), the initial deal of two cards each, player first
\* (Dealing -> PlayerTurn), a bust on a hit (PlayerTurn -> RoundOver), a stand
\* (PlayerTurn -> DealerTurn), a dealer value of 17 or more (DealerTurn ->
\* RoundOver) and a new round (RoundOver -> Betting).
C17_Phases ==
  /\ game_state = "betting"
  /\ [][game_state' # game_state =>
          \/ /\ game_state = "betting" /\ game_state' = "dealing"
             /\ 0 < bet' /\ bet' <= chips
          \/ /\ game_state = "dealing" /\ game_state' = "player_turn"
             /\ Len(deck) >= 4
             /\ player_hand' = <<deck[Len(deck)], deck[Len(deck) - 2]>>
             /\ dealer_hand' = <<deck[Len(deck) - 1], deck[Len(deck) - 3]>>
          \/ /\ game_state = "player_turn" /\ game_state' = "game_over"
             /\ Len(player_hand') = Len(player_hand) + 1
             /\ get_hand_value(player_hand') > 21
          \/ /\ game_state = "player_turn" /\ game_state' = "dealer_turn"
             /\ UNCHANGED <<player_hand, dealer_hand>>
          \/ /\ game_state = "dealer_turn" /\ game_state' = "game_over"
             /\ get_hand_value(dealer_hand) >= 17
          \/ /\ game_state = "game_over" /\ game_state' = "betting"]_vars

\* a second round played through a stand and the dealer's turn
C17_Witness ==
  /\ rounds = 1
  /\ game_state = "game_over"
  /\ get_hand_value(player_hand) <= 21
  /\ get_hand_value(dealer_hand) >= 17

\* C18: under fair frame updates a dealer's turn ends in RoundOver.
C18_DealerFinishes == (game_state = "dealer_turn") ~> (game_state = "game_over")

\* a round settled after the dealer drew twice
C18_Witness ==
  /\ game_state = "game_over"
  /\ Len(dealer_hand) >= 4
  /\ get_hand_value(player_hand) <= 21

\* C19: in PlayerTurn and in DealerTurn the player's hand value is at most 21.
C19_PlayerNotBust ==
  game_state \in {"player_turn", "dealer_turn"} =>
    get_hand_value(player_hand) <= 21

\* the player hit to exactly 21 and stood
C19_Witness ==
  /\ game_state = "dealer_turn"
  /\ Len(player_hand) >= 3
  /\ get_hand_value(player_hand) = 21

\* C20: with no chips left in Betting, the phase stays Betting and the chips
\* stay 0.
C20_Broke ==
  [][(game_state = "betting" /\ chips = 0) =>
       (game_state' = "betting" /\ chips' = 0)]_vars

\* a bet submitted with no chips left, and rejected
C20_Witness ==
  /\ game_state = "betting"
  /\ chips = 0
  /\ message = "Invalid bet. Enter bet amount:"

=============================================================================
